---- MODULE Spec2Model ----
(***************************************************************************)
(* A model of lib/run_commands.py: one RunWith instance, the caller that   *)
(* invokes its operations one at a time, and the operating-system objects  *)
(* a call works on (the pseudo-terminal pair, the child process, the       *)
(* watchdog timer thread).                                                 *)
(*                                                                         *)
(* Python values are tagged tuples: <<"None">>, <<"str", s>> with s a      *)
(* sequence of characters or of output chunks, <<"int", n>>,               *)
(* <<"list", elems>>, and <<"unset">> for an attribute that was never      *)
(* assigned (reading it raises AttributeError).                            *)
(***************************************************************************)
EXTENDS Integers, Sequences, FiniteSets, TLC

VARIABLES
    self,      \* the RunWith instance's attributes
    op,        \* the operation in progress, "idle" between calls
    pc,        \* index into Prog(op) of the next instruction
    args,      \* the arguments of the call in progress
    ret,       \* how the last call ended: return value or raised exception
    pty,       \* the call's pseudo-terminal pair: state of each descriptor
    proc,      \* the call's child process
    echo,      \* the terminal's ECHO attribute
    toMaster,  \* chunks waiting to be read on the controller descriptor
    toChild,   \* lines written to the controller, not yet read by the child
    pipes,     \* the child's stdout and stderr pipes (timeout)
    timer,     \* the watchdog timer thread (timeout)
    loc,       \* local variables of the call in progress
    log,       \* the calls made to the logger during this call
    hist,      \* what happened during this call (observation only)
    cwd        \* the process's current working directory

vars == <<self, op, pc, args, ret, pty, proc, echo, toMaster, toChild, pipes, timer, loc, log,
          hist, cwd>>

(***************************************************************************)
(* Bounds of the model.                                                    *)
(***************************************************************************)
\* Clock ticks (one tick = one sleep of the echo poll) in the echo poll's
\* timeout; the code's 3 s over 0.1 s sleeps is scaled down.
EchoTimeoutTicks == 2
\* Output chunks the command run by the child may write.
MaxOut == 1
\* Lines the child of waitNpassThruStdout may write.
MaxLines == 2
\* Lines a pipe holds before a write to it blocks (waitNpassThruStdout).
PipeCapacity == 1
\* Password prompts the child may show in one run.
MaxPrompts == 2

(***************************************************************************)
(* Python values.                                                          *)
(***************************************************************************)
PyNone == <<"None">>
Unset == <<"unset">>
PyStr(s) == <<"str", s>>
PyInt(n) == <<"int", n>>
PyList(l) == <<"list", l>>

\* Characters: " " is whitespace, "a" is not.
Strings == {<<>>, <<" ">>, <<"a">>}

\* A list element that is not a string (an integer).
NonString == "#7"

\* The child's exit statuses.
ExitCodes == {0, 1}

\* bool(v) as Python computes it.
Truthy(v) ==
    CASE v[1] = "None" -> FALSE
      [] v[1] = "str" -> v[2] # <<>>
      [] v[1] = "list" -> v[2] # <<>>
      [] v[1] = "int" -> v[2] # 0
      [] OTHER -> TRUE

IsList(v) == v[1] = "list"
IsString(v) == v[1] = "str"
AllStrings(l) == \A i \in 1..Len(l) : l[i] # NonString

\* re.match("^\s*$", s)
MatchBlankStar(s) == \A i \in 1..Len(s) : s[i] = " "
\* re.match("^\s+$", s)
MatchBlankPlus(s) == Len(s) > 0 /\ MatchBlankStar(s)

(***************************************************************************)
(* The logger: a call is its level and the sources of the parts that were  *)
(* concatenated into its message ("lit" a literal of the program, "user",  *)
(* "command", "err", ... the value the part was formatted from).           *)
(***************************************************************************)
Msg(level, parts) == [level |-> level, parts |-> parts]

\* A variant that formats the password into the warning.
CheckPasswordMsgLeak == Msg("WARNING", <<"lit", "password">>)

\* self.logger.log(lp.WARNING, "check password...")
CheckPasswordMsg == Msg("WARNING", <<"lit">>)

\* The except blocks around pty.openpty() and Popen().
SpawnErrorMsgs ==
    << Msg("WARNING", <<"lit", "err">>),
       Msg("WARNING", <<"trace">>),
       Msg("WARNING", <<"err">>) >>

Return(v) == [kind |-> "return", val |-> v]
Raise(e) == [kind |-> "raise", val |-> <<<<"exc", e>>>>]
NoRet == [kind |-> "none", val |-> <<>>]

NoArgs == [user |-> <<>>, password |-> <<>>, chk_string |-> PyNone, respawn |-> FALSE,
           cmd |-> PyNone, env |-> PyNone, myshell |-> PyNone, close_fds |-> PyNone,
           target_dir |-> "", timeout |-> PyNone]
NoPty == [master |-> "none", slave |-> "none"]
NoProc == [state |-> "none", code |-> 0, cpc |-> "none", asked |-> 0, wrote |-> 0]
NoPipes == [out |-> <<>>, err |-> <<>>, open |-> FALSE]
NoTimer == [state |-> "none", value |-> FALSE, error |-> FALSE]
\* A RunThread object: its attributes, the state of its thread ("initial",
\* "started", "spawned" when run() has its child, "collected" after run()'s
\* first communicate(), "finished") and whether run() ended by raising.
NoThread == [state |-> "none", command |-> PyNone, shell |-> PyNone, printcmd |-> Unset,
             retout |-> PyNone, reterr |-> PyNone, raised |-> FALSE]
NoLoc == [output |-> <<>>, ready |-> FALSE, timeout |-> PyNone, end_time |-> Unset,
          now |-> 0, inwait |-> FALSE, noecho |-> FALSE, run_thread |-> NoThread,
          return_dir |-> "unset"]
\* call: the operation called; cmdSet: a command was stored when it was
\* called; valid: its argument check passed; phases: the phases of the
\* handshake entered so far; waits: prompt waits begun; writes: one entry
\* per secret written (the result of the echo poll before it, the prompt
\* waits begun before it); cmdOut: chunks the child wrote after it had read
\* a secret; timedOut: an echo poll returned False; mismatch: runAs read
\* something else than the prompt; killed: the watchdog's kill ended the
\* child; ownExit: the child ended on its own; expiredLive: the watchdog's
\* interval passed while the child was running; stale: the call before this
\* one was a run operation (no setCommand in between); leakedProc,
\* leakedPty: an earlier call of this instance left a child running, a
\* pseudo-terminal pair open; reads: the lines waitNpassThruStdout read
\* (stream, line, outcome of the pattern test); syncs: its calls of
\* libc.sync(); spawnFailed: pty.openpty() or Popen() raised; cwd0: the
\* working directory when the call began; lastPoll: when waitnoecho's latest
\* getecho was made ("in": not after end_time, "over1": after it by at most
\* one sleep, "over2": by more, "unbounded": there is no end_time); before:
\* the stored command, printable form and shell mode when setCommand was
\* called.
NoHist == [call |-> "none", cmdSet |-> FALSE, valid |-> FALSE, phases |-> <<>>,
           waits |-> 0, writes |-> <<>>, cmdOut |-> 0, timedOut |-> FALSE,
           mismatch |-> FALSE, killed |-> FALSE, ownExit |-> FALSE,
           expiredLive |-> FALSE, stale |-> FALSE,
           leakedProc |-> FALSE, leakedPty |-> FALSE,
           reads |-> <<>>, syncs |-> 0, spawnFailed |-> FALSE, cwd0 |-> "start",
           lastPoll |-> "none", before |-> <<>>]

ElevationOps == {"runAs", "runAsWithSudo", "runWithSudo"}
PipeOps == {"communicate", "wait", "waitNpassThruStdout", "timeout"}
RunOps == ElevationOps \cup PipeOps \cup {"liftDown"}

NewHist(o) ==
    [NoHist EXCEPT !.call = o,
                   !.cmdSet = (self.command # PyNone),
                   !.cwd0 = cwd,
                   !.before = IF o = "setCommand"
                              THEN <<self.command, self.printcmd, self.myshell>>
                              ELSE <<>>,
                   !.stale = (hist.call \in RunOps),
                   !.leakedProc = (hist.leakedProc \/ proc.state = "running"),
                   !.leakedPty = (hist.leakedPty \/ pty.master = "open")]

Init ==
    /\ self = [command |-> PyNone, printcmd |-> PyNone, myshell |-> PyNone,
               stdout |-> PyNone, stderr |-> PyNone, retcode |-> PyNone,
               environ |-> Unset, cfds |-> Unset,
               output |-> Unset, error |-> Unset, returncode |-> Unset]
    /\ op = "idle"
    /\ pc = 0
    /\ args = NoArgs
    /\ ret = NoRet
    /\ pty = NoPty
    /\ proc = NoProc
    /\ echo = TRUE
    /\ toMaster = <<>>
    /\ toChild = 0
    /\ pipes = NoPipes
    /\ timer = NoTimer
    /\ loc = NoLoc
    /\ log = <<>>
    /\ hist = NoHist
    /\ cwd = "start"

\* A call starts with fresh operating-system objects and an empty record.
\* The caller starts no call while a watchdog thread is still at work.
FreshCallWith(locals) ==
    /\ timer.state \notin {"checked", "flagged"}
    /\ pty' = NoPty
    /\ proc' = NoProc
    /\ echo' = TRUE
    /\ toMaster' = <<>>
    /\ toChild' = 0
    /\ pipes' = NoPipes
    /\ timer' = NoTimer
    /\ loc' = locals

FreshCall == FreshCallWith(NoLoc)

\* The call in progress ends with result r.
EndCall(r) ==
    /\ ret' = r
    /\ op' = "idle"
    /\ pc' = 0


(***************************************************************************)
(* setCommand                                                              *)
(***************************************************************************)
PyBool(b) == <<"bool", b>>

\* The commands, environments and flags the caller passes to setCommand.
CommandInputs ==
    { PyNone, PyList(<<>>), PyList(<<"a">>), PyList(<<"a", NonString>>),
      PyStr(<<>>), PyStr(<<"a">>), PyInt(7) }
EnvInputs == {PyNone}
MyshellInputs == {PyNone}
CloseFdsInputs == {PyBool(FALSE)}

\* A dict with the given keys.
PyDict(keys) == <<"dict", keys>>

\* All the shapes of env, myshell and close_fds: None, an empty and a
\* non-empty dict, a string; None, the two booleans, the integer 1; the two
\* booleans, the integer 1.
AllEnvInputs == {PyNone, PyDict(<<>>), PyDict(<<"k">>), PyStr(<<"a">>)}
AllMyshellInputs == {PyNone, PyBool(TRUE), PyBool(FALSE), PyInt(1)}
AllCloseFdsInputs == {PyBool(FALSE), PyBool(TRUE), PyInt(1)}

\* " ".join(l)
RECURSIVE Join(_)
Join(l) ==
    IF l = <<>> THEN <<>>
    ELSE IF Len(l) = 1 THEN <<l[1]>>
    ELSE <<l[1], " ">> \o Join(Tail(l))

\* A variant that ignores the myshell argument.
SetCommandTailNoOverride(s, env, myshell, close_fds) ==
    [s EXCEPT !.environ = IF env[1] = "dict" /\ env[2] # <<>> THEN env ELSE PyNone,
              !.cfds = IF close_fds[1] = "bool" /\ close_fds[2] THEN close_fds
                       ELSE PyBool(FALSE)]

\* Lines 125-139 of setCommand: the shell override, the debug line, env and
\* close_fds.
SetCommandTail(s, env, myshell, close_fds) ==
    [s EXCEPT !.myshell = IF myshell[1] = "bool" THEN myshell ELSE s.myshell,
              !.environ = IF env[1] = "dict" /\ env[2] # <<>> THEN env ELSE PyNone,
              !.cfds = IF close_fds[1] = "bool" /\ close_fds[2] THEN close_fds
                       ELSE PyBool(FALSE)]

SetCommand(command, env, myshell, close_fds) ==
    /\ op = "idle"
    /\ FreshCall
    /\ hist' = NewHist("setCommand")
    /\ args' = [NoArgs EXCEPT !.cmd = command, !.env = env, !.myshell = myshell,
                              !.close_fds = close_fds]
    /\ UNCHANGED <<op, pc>>
    /\ LET s1 == IF Truthy(command) THEN [self EXCEPT !.command = command] ELSE self
       IN  CASE IsList(command) /\ command[2] = <<>> ->
                   /\ self' = s1
                   /\ log' = <<>>
                   /\ ret' = Raise("ValueError")
             [] IsList(command) /\ command[2] # <<>> /\ ~AllStrings(command[2]) ->
                   /\ self' = s1
                   /\ log' = <<>>
                   /\ ret' = Raise("SetCommandTypeError")
             [] IsList(command) /\ command[2] # <<>> /\ AllStrings(command[2]) ->
                   /\ self' = SetCommandTail(
                                 [s1 EXCEPT !.printcmd = PyStr(Join(command[2])),
                                            !.command = command,
                                            !.myshell = PyBool(FALSE)],
                                 env, myshell, close_fds)
                   /\ log' = << Msg("DEBUG", <<"lit", "myshell">>) >>
                   /\ ret' = Return(<<PyNone>>)
             [] IsString(command) /\ command[2] = <<>> ->
                   /\ self' = s1
                   /\ log' = <<>>
                   /\ ret' = Raise("ValueError")
             [] IsString(command) /\ command[2] # <<>> ->
                   /\ self' = SetCommandTail(
                                 [s1 EXCEPT !.command = command,
                                            !.printcmd = command,
                                            !.myshell = PyBool(TRUE)],
                                 env, myshell, close_fds)
                   /\ log' = << Msg("DEBUG", <<"lit", "myshell">>) >>
                   /\ ret' = Return(<<PyNone>>)
             [] OTHER ->
                   /\ self' = s1
                   /\ log' = <<>>
                   /\ ret' = Raise("TypeError")
    /\ UNCHANGED cwd

(***************************************************************************)
(* The elevation calls: runAs, runAsWithSudo, runWithSudo.  Each is the    *)
(* entry (argument validation, the command line built for su / sudo) and   *)
(* then the instructions of Prog, one step each, interleaved with the      *)
(* child's steps.                                                          *)
(***************************************************************************)
\* A variant of runAsWithSudo that does not answer the second prompt.
ProgOneWrite(o) ==
    CASE o = "runAs" ->
           << "openpty", "popen", "read_prompt", "write", "read_acc",
              "select", "drain", "close", "wait", "finish" >>
      [] o = "runAsWithSudo" ->
           << "openpty", "popen", "waitnoecho", "read", "write", "read",
              "waitnoecho", "read",
              "select", "drain", "close", "wait", "finish" >>
      [] o = "runWithSudo" ->
           << "openpty", "popen", "waitnoecho", "read", "write", "read",
              "select", "drain", "close", "wait", "finish" >>
      [] OTHER -> <<>>

\* A variant of runWithSudo that writes the secret a second time.
ProgTwoWrites(o) ==
    CASE o = "runAs" ->
           << "openpty", "popen", "read_prompt", "write", "read_acc",
              "select", "drain", "close", "wait", "finish" >>
      [] o = "runAsWithSudo" ->
           << "openpty", "popen", "waitnoecho", "read", "write", "read",
              "waitnoecho", "read", "write", "read",
              "select", "drain", "close", "wait", "finish" >>
      [] o = "runWithSudo" ->
           << "openpty", "popen", "waitnoecho", "read", "write", "write", "read",
              "select", "drain", "close", "wait", "finish" >>
      [] OTHER -> <<>>

Prog(o) ==
    CASE o = "runAs" ->
           << "openpty", "popen", "read_prompt", "write", "read_acc",
              "select", "drain", "close", "wait", "finish" >>
      [] o = "runAsWithSudo" ->
           << "openpty", "popen", "waitnoecho", "read", "write", "read",
              "waitnoecho", "read", "write", "read",
              "select", "drain", "close", "wait", "finish" >>
      [] o = "runWithSudo" ->
           << "openpty", "popen", "waitnoecho", "read", "write", "read",
              "select", "drain", "close", "wait", "finish" >>
      [] OTHER -> <<>>

Instr ==
    IF op \in ElevationOps /\ pc \in 1..Len(Prog(op)) THEN Prog(op)[pc]
    ELSE IF op = "waitnoecho" /\ pc = 1 THEN "waitnoecho"
    ELSE "none"

\* Building the su / sudo command line from self.command raises when the
\* command is a list holding a non-string (join in runAs and runWithSudo,
\* .decode in runAsWithSudo).
BuildRaises(command) == IsList(command) /\ ~AllStrings(command[2])
BuildException(o) == IF o = "runAsWithSudo" THEN "AttributeError" ELSE "TypeError"

\* The argument checks.
RunAsInvalid(user, password, command) ==
    MatchBlankStar(user) \/ MatchBlankStar(password) \/ ~Truthy(command)

\* A variant of the check without its tests for the empty string.
RunAsWithSudoInvalidNoEmpty(user, password, command) ==
    \/ MatchBlankPlus(user) \/ MatchBlankPlus(password)
    \/ ~Truthy(command)

RunAsWithSudoInvalid(user, password, command) ==
    \/ MatchBlankPlus(user) \/ MatchBlankPlus(password)
    \/ user = <<>> \/ password = <<>>
    \/ ~Truthy(command)

RunWithSudoInvalid(password, command) ==
    MatchBlankPlus(password) \/ password = <<>> \/ ~Truthy(command)

\* The warnings of a failed argument check.
RunAsInvalidMsgs ==
    << Msg("WARNING", <<"lit">>), Msg("WARNING", <<"lit", "user", "lit">>),
       CheckPasswordMsg, Msg("WARNING", <<"lit", "command", "lit">>) >>
RunWithSudoInvalidMsgs ==
    << Msg("WARNING", <<"lit">>), CheckPasswordMsg, Msg("WARNING", <<"lit", "command">>) >>

\* The entry of an elevation call: s is the instance after the entry's
\* assignments, msgs the entry's log calls.
Enter(o, user, password, s, msgs, invalid, invalidMsgs) ==
    /\ op = "idle"
    /\ FreshCall
    /\ self' = s
    /\ args' = [NoArgs EXCEPT !.user = user, !.password = password]
    /\ IF invalid
       THEN /\ log' = msgs \o invalidMsgs
            /\ hist' = NewHist(o)
            /\ ret' = Return(<<PyInt(255)>>)
            /\ UNCHANGED <<op, pc>>
       ELSE IF BuildRaises(s.command)
       THEN /\ log' = msgs
            /\ hist' = [NewHist(o) EXCEPT !.valid = TRUE]
            /\ ret' = Raise(BuildException(o))
            /\ UNCHANGED <<op, pc>>
       ELSE /\ log' = msgs
            /\ hist' = [NewHist(o) EXCEPT !.valid = TRUE]
            /\ ret' = NoRet
            /\ op' = o
            /\ pc' = 1
    /\ UNCHANGED cwd

RunAs(user, password) ==
    Enter("runAs", user, password,
          [self EXCEPT !.stdout = PyStr(<<>>), !.stderr = PyStr(<<>>),
                       !.retcode = PyInt(999)],
          <<>>,
          RunAsInvalid(user, password, self.command),
          RunAsInvalidMsgs)

RunAsWithSudo(user, password) ==
    Enter("runAsWithSudo", user, password, self,
          << Msg("DEBUG", <<"lit">>), Msg("DEBUG", <<"lit", "user", "lit">>),
             Msg("DEBUG", <<"lit", "command", "lit">>) >>,
          RunAsWithSudoInvalid(user, password, self.command),
          << Msg("WARNING", <<"lit">>), Msg("WARNING", <<"lit", "user", "lit">>),
             CheckPasswordMsg, Msg("WARNING", <<"lit", "command">>) >>)

RunWithSudo(password) ==
    Enter("runWithSudo", <<>>, password, self,
          << Msg("DEBUG", <<"lit">>), Msg("DEBUG", <<"lit", "command">>) >>,
          RunWithSudoInvalid(password, self.command),
          RunWithSudoInvalidMsgs)


(***************************************************************************)
(* The instructions of an elevation call.                                  *)
(***************************************************************************)
Phase(name) == [hist EXCEPT !.phases = Append(@, name)]

\* (master, slave) = pty.openpty(); runAs has no try around it.
Openpty ==
    /\ Instr = "openpty"
    /\ UNCHANGED <<pipes, timer>>
    /\ \E ok \in BOOLEAN :
         IF ok
         THEN /\ pty' = [master |-> "open", slave |-> "open"]
              /\ pc' = pc + 1
              /\ UNCHANGED <<op, ret, log>>
         ELSE /\ log' = IF op = "runAs" THEN log ELSE log \o SpawnErrorMsgs
              /\ EndCall(Raise("OSError"))
              /\ UNCHANGED pty
    /\ hist' = [hist EXCEPT !.spawnFailed = (op' = "idle")]
    /\ UNCHANGED <<self, args, proc, echo, toMaster, toChild, loc>>
    /\ UNCHANGED cwd

\* proc = Popen(internal_command, stdin=slave, stdout=slave, stderr=slave)
Popen ==
    /\ Instr = "popen"
    /\ UNCHANGED <<pipes, timer>>
    /\ \E ok \in BOOLEAN :
         IF ok
         THEN /\ proc' = [state |-> "running", code |-> 0, cpc |-> "run",
                          asked |-> 0, wrote |-> 0]
              /\ hist' = Phase("SPAWNED")
              /\ pc' = pc + 1
              /\ UNCHANGED <<op, ret, log>>
         ELSE /\ log' = IF op = "runAs" THEN log ELSE log \o SpawnErrorMsgs
              /\ EndCall(Raise("OSError"))
              /\ hist' = [hist EXCEPT !.spawnFailed = TRUE]
              /\ UNCHANGED proc
    /\ UNCHANGED <<self, args, pty, echo, toMaster, toChild, loc>>
    /\ UNCHANGED cwd

\* runAs: prompt = os.read(master, 10), a blocking read that returns the
\* first chunk, and the test re.match("^Password:", prompt).
ReadPrompt ==
    /\ Instr = "read_prompt"
    /\ UNCHANGED <<pipes, timer>>
    /\ toMaster # <<>>
    /\ toMaster' = Tail(toMaster)
    /\ IF Head(toMaster) = "Password:"
       THEN /\ pc' = pc + 1
            /\ hist' = [Phase("AWAIT_PROMPT") EXCEPT !.waits = @ + 1]
            /\ UNCHANGED self
       ELSE /\ pc' = Len(Prog(op))
            /\ hist' = [Phase("AWAIT_PROMPT") EXCEPT !.waits = @ + 1, !.mismatch = TRUE]
            /\ self' = [self EXCEPT !.output = PyNone, !.error = PyNone,
                                    !.returncode = PyNone]
    /\ UNCHANGED <<op, args, ret, pty, proc, echo, toChild, loc, log>>
    /\ UNCHANGED cwd

\* os.read(master, 512): a blocking read that returns all that is pending.
\* The sudo flows keep it in self.prompt (never read again) or drop it.
Read ==
    /\ Instr = "read"
    /\ UNCHANGED <<pipes, timer>>
    /\ toMaster # <<>>
    /\ toMaster' = <<>>
    /\ pc' = pc + 1
    /\ UNCHANGED <<self, op, args, ret, pty, proc, echo, toChild, loc, log, hist>>
    /\ UNCHANGED cwd

\* runAs: line = os.read(master, 512); output = output + line
ReadAcc ==
    /\ Instr = "read_acc"
    /\ UNCHANGED <<pipes, timer>>
    /\ toMaster # <<>>
    /\ toMaster' = <<>>
    /\ loc' = [loc EXCEPT !.output = @ \o toMaster]
    /\ pc' = pc + 1
    /\ UNCHANGED <<self, op, args, ret, pty, proc, echo, toChild, log, hist>>
    /\ UNCHANGED cwd

\* self.waitnoecho(master, timeout), entry: lines 708-709.
WaitNoEchoEnter(timeout) ==
    /\ Instr = "waitnoecho"
    /\ UNCHANGED <<pipes, timer>>
    /\ ~loc.inwait
    /\ loc' = [loc EXCEPT !.inwait = TRUE,
                          !.timeout = timeout,
                          !.end_time = IF timeout # PyNone /\ timeout[2] > 0
                                       THEN PyInt(loc.now + timeout[2]) ELSE Unset,
                          !.noecho = FALSE]
    /\ hist' = [Phase("AWAIT_PROMPT") EXCEPT !.waits = @ + 1]
    /\ UNCHANGED <<self, op, pc, args, ret, pty, proc, echo, toMaster, toChild, log>>
    /\ UNCHANGED cwd

\* A variant of the test that takes a timeout of zero as passed.
TimeoutPassedAtZero(timeout) == timeout # PyNone /\ timeout[2] <= 0

\* if timeout < 0 and timeout is not None  (None < 0 is True in Python 2)
TimeoutPassed(timeout) == timeout # PyNone /\ timeout[2] < 0

\* When a getecho is made at time now: not after end_time, after it by at
\* most one sleep, or by more.
PollTime(end_time, now) ==
    IF end_time = Unset THEN "unbounded"
    ELSE IF now <= end_time[2] THEN "in"
    ELSE IF now <= end_time[2] + 1 THEN "over1"
    ELSE "over2"

\* One turn of waitnoecho's loop: getecho, the timeout test, the new
\* timeout, time.sleep(0.1).  The elevation calls drop the returned value;
\* loc.noecho keeps it.  With timeout None the clock is never read.
WaitNoEchoPoll ==
    /\ Instr = "waitnoecho"
    /\ UNCHANGED <<pipes, timer>>
    /\ loc.inwait
    /\ IF ~echo
       THEN /\ loc' = [loc EXCEPT !.inwait = FALSE, !.timeout = PyNone, !.now = 0,
                                  !.end_time = Unset, !.noecho = TRUE]
            /\ hist' = [hist EXCEPT !.lastPoll = PollTime(loc.end_time, loc.now)]
            /\ pc' = pc + 1
            /\ UNCHANGED <<op, ret>>
       ELSE IF TimeoutPassed(loc.timeout)
       THEN /\ loc' = [loc EXCEPT !.inwait = FALSE, !.timeout = PyNone, !.now = 0,
                                  !.end_time = Unset, !.noecho = FALSE]
            /\ hist' = [hist EXCEPT !.timedOut = TRUE,
                                    !.lastPoll = PollTime(loc.end_time, loc.now)]
            /\ pc' = pc + 1
            /\ UNCHANGED <<op, ret>>
       ELSE IF loc.timeout # PyNone /\ loc.end_time = Unset
       THEN /\ EndCall(Raise("UnboundLocalError"))
            /\ hist' = [hist EXCEPT !.lastPoll = PollTime(loc.end_time, loc.now)]
            /\ UNCHANGED loc
       ELSE /\ loc' = [loc EXCEPT !.timeout = IF loc.timeout = PyNone THEN PyNone
                                               ELSE PyInt(loc.end_time[2] - loc.now),
                                  !.now = IF loc.timeout = PyNone THEN @ ELSE @ + 1]
            /\ hist' = [hist EXCEPT !.lastPoll = PollTime(loc.end_time, loc.now)]
            /\ UNCHANGED <<op, pc, ret>>
    /\ UNCHANGED <<self, args, pty, proc, echo, toMaster, toChild, log>>
    /\ UNCHANGED cwd

\* os.write(master, password + "\n"); with ECHO on the terminal echoes the
\* line back to the controller.
Write ==
    /\ Instr = "write"
    /\ UNCHANGED <<pipes, timer>>
    /\ toChild' = toChild + 1
    /\ toMaster' = IF echo THEN Append(toMaster, "secret") ELSE toMaster
    /\ hist' = [Phase("PASSWORD_SENT") EXCEPT
                   !.writes = Append(@, [noecho |-> loc.noecho, waits |-> hist.waits])]
    /\ loc' = [loc EXCEPT !.noecho = FALSE]
    /\ pc' = pc + 1
    /\ UNCHANGED <<self, op, args, ret, pty, proc, echo, log>>
    /\ UNCHANGED cwd

\* ready, _, _ = select.select([master], [], [], 0)
Select ==
    /\ Instr = "select"
    /\ UNCHANGED <<pipes, timer>>
    /\ loc' = [loc EXCEPT !.ready = (toMaster # <<>>)]
    /\ hist' = IF hist.phases # <<>> /\ hist.phases[Len(hist.phases)] = "DRAINING"
               THEN hist ELSE Phase("DRAINING")
    /\ pc' = pc + 1
    /\ UNCHANGED <<self, op, args, ret, pty, proc, echo, toMaster, toChild, log>>
    /\ UNCHANGED cwd

\* if ready: output += os.read(master, 512)
\* elif proc.poll() is not None: break       (poll reaps an exited child)
Drain ==
    /\ Instr = "drain"
    /\ UNCHANGED <<pipes, timer>>
    /\ IF loc.ready
       THEN /\ toMaster # <<>>
            /\ loc' = [loc EXCEPT !.output = @ \o toMaster]
            /\ toMaster' = <<>>
            /\ pc' = pc - 1
            /\ UNCHANGED proc
       ELSE IF proc.state = "running"
       THEN /\ pc' = pc - 1
            /\ UNCHANGED <<loc, toMaster, proc>>
       ELSE /\ proc' = [proc EXCEPT !.state = "reaped"]
            /\ pc' = pc + 1
            /\ UNCHANGED <<loc, toMaster>>
    /\ UNCHANGED <<self, op, args, ret, pty, echo, toChild, log, hist>>
    /\ UNCHANGED cwd

\* os.close(master); os.close(slave)
Close ==
    /\ Instr = "close"
    /\ UNCHANGED <<pipes, timer>>
    /\ pty' = [master |-> "closed", slave |-> "closed"]
    /\ pc' = pc + 1
    /\ UNCHANGED <<self, op, args, ret, proc, echo, toMaster, toChild, loc, log, hist>>
    /\ UNCHANGED cwd

\* The value stored in self.stdout after the wait: proc.stdout (None, the
\* child was given the slave descriptor) in runAs and runAsWithSudo, the
\* accumulated output in runWithSudo.
StoredStdout(o, output) == IF o = "runWithSudo" THEN PyStr(output) ELSE PyNone

\* proc.wait() and the three assignments after it.
Wait ==
    /\ Instr = "wait"
    /\ UNCHANGED <<pipes, timer>>
    /\ proc.state \in {"exited", "reaped"}
    /\ proc' = [proc EXCEPT !.state = "reaped"]
    /\ self' = [self EXCEPT !.stdout = StoredStdout(op, loc.output),
                            !.stderr = PyNone,
                            !.retcode = PyInt(proc.code)]
    /\ hist' = Phase("EXITED")
    /\ pc' = pc + 1
    /\ UNCHANGED <<op, args, ret, pty, echo, toMaster, toChild, loc, log>>
    /\ UNCHANGED cwd

\* The value of the return statement, computed from the instance s.
Returned(o, s, output) ==
    CASE o = "runAs" ->
           IF Unset \in {s.output, s.error, s.returncode}
           THEN Raise("AttributeError")
           ELSE Return(<<s.output, s.error, s.returncode>>)
      [] o = "runAsWithSudo" -> Return(<<s.stdout, s.stderr, s.retcode>>)
      [] OTHER -> Return(<<PyStr(output)>>)

\* The end of the call: runAs logs the return code; runAs and runAsWithSudo
\* clear self.command before the return statement, runWithSudo returns from
\* inside its else branch.
Finish ==
    /\ Instr = "finish"
    /\ UNCHANGED <<pipes, timer>>
    /\ log' = IF op = "runAs" THEN Append(log, Msg("DEBUG", <<"lit", "retcode">>))
              ELSE log
    /\ self' = IF op = "runWithSudo" THEN self ELSE [self EXCEPT !.command = PyNone]
    /\ EndCall(Returned(op, self, loc.output))
    /\ UNCHANGED <<args, pty, proc, echo, toMaster, toChild, loc, hist>>
    /\ UNCHANGED cwd

(***************************************************************************)
(* The child (su, sudo and the command they run), as far as the caller can *)
(* observe it on the terminal.                                             *)
(***************************************************************************)
ChildRuns == op \in ElevationOps /\ proc.state = "running"

\* The child turns ECHO off and prints its password prompt; it does so
\* before the command it runs has written anything.
ChildPrompt ==
    /\ ChildRuns
    /\ UNCHANGED <<pipes, timer>>
    /\ proc.cpc = "run"
    /\ proc.asked < MaxPrompts
    /\ proc.wrote = 0
    /\ echo' = FALSE
    /\ toMaster' = Append(toMaster, "Password:")
    /\ proc' = [proc EXCEPT !.cpc = "ask", !.asked = @ + 1]
    /\ UNCHANGED <<self, op, pc, args, ret, pty, toChild, loc, log, hist>>
    /\ UNCHANGED cwd

\* The child reads the line typed at its prompt, turns ECHO on again and
\* prints a newline.
ChildReadSecret ==
    /\ ChildRuns
    /\ UNCHANGED <<pipes, timer>>
    /\ proc.cpc = "ask"
    /\ toChild > 0
    /\ toChild' = toChild - 1
    /\ echo' = TRUE
    /\ toMaster' = Append(toMaster, "\n")
    /\ proc' = [proc EXCEPT !.cpc = "run"]
    /\ UNCHANGED <<self, op, pc, args, ret, pty, loc, log, hist>>
    /\ UNCHANGED cwd

\* The child (an error message of su or sudo, or the command) writes a
\* chunk of output.
ChildWrite ==
    /\ ChildRuns
    /\ UNCHANGED <<pipes, timer>>
    /\ proc.cpc = "run"
    /\ proc.wrote < MaxOut
    /\ toMaster' = Append(toMaster, "out")
    /\ proc' = [proc EXCEPT !.wrote = @ + 1]
    /\ hist' = IF proc.asked > 0 THEN [hist EXCEPT !.cmdOut = @ + 1] ELSE hist
    /\ UNCHANGED <<self, op, pc, args, ret, pty, echo, toChild, loc, log>>
    /\ UNCHANGED cwd

\* The child exits.
ChildExit ==
    /\ ChildRuns
    /\ UNCHANGED <<pipes, timer>>
    /\ proc.cpc = "run"
    /\ \E c \in ExitCodes : proc' = [proc EXCEPT !.state = "exited", !.code = c]
    /\ UNCHANGED <<self, op, pc, args, ret, pty, echo, toMaster, toChild, loc, log, hist>>
    /\ UNCHANGED cwd

(***************************************************************************)
(* timeout(timout_sec): the main thread, the threading.Timer thread that   *)
(* runs killProc when its interval has passed, and the child.              *)
(***************************************************************************)
\* Popen takes a non-empty list of strings or a non-empty string.
ValidCommand(c) == (IsList(c) /\ c[2] # <<>> /\ AllStrings(c[2])) \/ (IsString(c) /\ c[2] # <<>>)

\* The finally block of timeout: four debug lines, the first of which
\* concatenates self.printcmd.
TimeoutDoneMsgs ==
    << Msg("DEBUG", <<"lit", "printcmd">>), Msg("DEBUG", <<"lit", "stdout">>),
       Msg("DEBUG", <<"lit", "stderr">>), Msg("DEBUG", <<"lit", "retcode">>) >>

\* The except block of timeout, then its finally block.  With printcmd None
\* the second warning's concatenation raises TypeError, and so does the
\* first line of the finally block.
TimeoutErrorMsgs(printcmd) ==
    IF printcmd = PyNone
    THEN << Msg("WARNING", <<"lit", "err">>) >>
    ELSE << Msg("WARNING", <<"lit", "err">>), Msg("WARNING", <<"lit", "printcmd">>),
            Msg("WARNING", <<"trace">>), Msg("WARNING", <<"err">>) >> \o TimeoutDoneMsgs

\* The entry of timeout: with no command it logs a warning, clears the
\* result fields and reaches "return timeout["value"]" with the local name
\* timeout never bound.
Timeout ==
    /\ op = "idle"
    /\ FreshCall
    /\ hist' = NewHist("timeout")
    /\ args' = NoArgs
    /\ IF Truthy(self.command)
       THEN /\ op' = "timeout"
            /\ pc' = 1
            /\ ret' = NoRet
            /\ log' = <<>>
            /\ UNCHANGED self
       ELSE /\ log' = << Msg("WARNING", <<"lit">>) >>
            /\ self' = [self EXCEPT !.stdout = PyNone, !.stderr = PyNone,
                                    !.retcode = PyNone, !.command = PyNone]
            /\ ret' = Raise("UnboundLocalError")
            /\ UNCHANGED <<op, pc>>
    /\ UNCHANGED cwd

TInstr == IF op = "timeout" THEN pc ELSE 0

\* proc = Popen(self.command, stdout=PIPE, stderr=PIPE, shell=self.myshell)
TimeoutPopen ==
    /\ TInstr = 1
    /\ \E ok \in {TRUE, FALSE} :
         IF ok /\ ValidCommand(self.command)
         THEN /\ proc' = [state |-> "running", code |-> 0, cpc |-> "run",
                          asked |-> 0, wrote |-> 0]
              /\ pipes' = [out |-> <<>>, err |-> <<>>, open |-> TRUE]
              /\ pc' = 2
              /\ UNCHANGED <<op, ret, log>>
         ELSE /\ log' = log \o TimeoutErrorMsgs(self.printcmd)
              /\ EndCall(Raise(IF ValidCommand(self.command) /\ self.printcmd # PyNone
                               THEN "OSError" ELSE "TypeError"))
              /\ UNCHANGED <<proc, pipes>>
    /\ hist' = [hist EXCEPT !.spawnFailed = (op' = "idle")]
    /\ UNCHANGED <<self, args, pty, echo, toMaster, toChild, timer, loc>>
    /\ UNCHANGED cwd

\* timeout = {"value": False}; timer = threading.Timer(...); timer.start()
TimerStart ==
    /\ TInstr = 2
    /\ timer' = [state |-> "waiting", value |-> FALSE, error |-> FALSE]
    /\ pc' = 3
    /\ UNCHANGED <<self, op, args, ret, pty, proc, echo, toMaster, toChild, pipes, loc, log, hist>>
    /\ UNCHANGED cwd

\* self.stdout, self.stderr = proc.communicate(): returns when the child has
\* ended, with all it wrote, and reaps it.
TimeoutCommunicate ==
    /\ TInstr = 3
    /\ proc.state = "exited"
    /\ proc' = [proc EXCEPT !.state = "reaped"]
    /\ self' = [self EXCEPT !.stdout = PyStr(pipes.out), !.stderr = PyStr(pipes.err)]
    /\ pc' = 4
    /\ UNCHANGED <<op, args, ret, pty, echo, toMaster, toChild, pipes, timer, loc, log, hist>>
    /\ UNCHANGED cwd

\* timer.cancel(): sets the timer's finished event, which stops a timer that
\* has not yet tested it.
TimerCancel ==
    /\ TInstr = 4
    /\ timer' = IF timer.state = "waiting" THEN [timer EXCEPT !.state = "cancelled"]
                ELSE timer
    /\ pc' = 5
    /\ UNCHANGED <<self, op, args, ret, pty, proc, echo, toMaster, toChild, pipes, loc, log, hist>>
    /\ UNCHANGED cwd

\* A variant that reports no timeout whatever the flag.
TimeoutValueFalse(flag) == PyBool(FALSE)

\* The value timeout() returns.
TimeoutValue(flag) == PyBool(flag)

\* The else and finally blocks, self.command = None, return timeout["value"].
TimeoutFinish ==
    /\ TInstr = 5
    /\ self' = [self EXCEPT !.retcode = PyInt(proc.code), !.command = PyNone]
    /\ pipes' = [pipes EXCEPT !.open = FALSE]
    /\ log' = log \o TimeoutDoneMsgs
    /\ EndCall(Return(<<TimeoutValue(timer.value)>>))
    /\ UNCHANGED <<args, pty, proc, echo, toMaster, toChild, timer, loc, hist>>
    /\ UNCHANGED cwd

\* Timer.run: the interval has passed and the finished event is not set.
TimerExpire ==
    /\ timer.state = "waiting"
    /\ timer' = [timer EXCEPT !.state = "checked"]
    /\ hist' = [hist EXCEPT !.expiredLive = (proc.state = "running")]
    /\ UNCHANGED <<self, op, pc, args, ret, pty, proc, echo, toMaster, toChild, pipes, loc, log>>
    /\ UNCHANGED cwd

\* killProc: timeout["value"] = True
KillProcSetFlag ==
    /\ timer.state = "checked"
    /\ timer' = [timer EXCEPT !.state = "flagged", !.value = TRUE]
    /\ UNCHANGED <<self, op, pc, args, ret, pty, proc, echo, toMaster, toChild, pipes, loc, log, hist>>
    /\ UNCHANGED cwd

\* killProc: proc.kill(), os.kill(pid, SIGKILL): it ends a running child,
\* does nothing to one that has exited and is not yet reaped, and raises
\* OSError (no such process) in the timer thread once the child is reaped.
KillProcKill ==
    /\ timer.state = "flagged"
    /\ timer' = [timer EXCEPT !.state = "done", !.error = (proc.state = "reaped")]
    /\ IF proc.state = "running"
       THEN /\ proc' = [proc EXCEPT !.state = "exited", !.code = -9]
            /\ hist' = [hist EXCEPT !.killed = TRUE]
       ELSE UNCHANGED <<proc, hist>>
    /\ UNCHANGED <<self, op, pc, args, ret, pty, echo, toMaster, toChild, pipes, loc, log>>
    /\ UNCHANGED cwd

PipeChildRuns ==
    /\ op \in {"timeout", "communicate", "liftDown", "wait", "runMyThreadCommand"}
    /\ proc.state = "running"

\* The child writes a chunk to its standard output or standard error.
PipeChildWrite ==
    /\ PipeChildRuns
    /\ proc.wrote < MaxOut
    /\ proc' = [proc EXCEPT !.wrote = @ + 1]
    /\ \E s \in {"out", "err"} :
         pipes' = IF s = "out" THEN [pipes EXCEPT !.out = Append(@, "out")]
                  ELSE [pipes EXCEPT !.err = Append(@, "err")]
    /\ UNCHANGED <<self, op, pc, args, ret, pty, echo, toMaster, toChild, timer, loc, log, hist>>
    /\ UNCHANGED cwd

\* The child ends on its own.
PipeChildExit ==
    /\ PipeChildRuns
    /\ \E c \in ExitCodes : proc' = [proc EXCEPT !.state = "exited", !.code = c]
    /\ hist' = [hist EXCEPT !.ownExit = TRUE]
    /\ UNCHANGED <<self, op, pc, args, ret, pty, echo, toMaster, toChild, pipes, timer, loc, log>>
    /\ UNCHANGED cwd

(***************************************************************************)
(* communicate(), wait() and liftDown(): the child writes to two pipes; the *)
(* call is its entry and then three steps (spawn, collect, finish).        *)
(***************************************************************************)
\* The warning of a run operation called with no command.
NoCommandMsgs == << Msg("WARNING", <<"lit">>) >>

\* The else branch of a run operation called with no command, and the
\* statement after it.
NoCommandFields(s) ==
    [s EXCEPT !.stdout = PyNone, !.stderr = PyNone, !.retcode = PyNone,
              !.command = PyNone]

\* return self.stdout, self.stderr, self.retcode
ReturnsOf(s) == <<s.stdout, s.stderr, s.retcode>>

\* The four debug lines of a finally block.
DoneMsgs ==
    << Msg("DEBUG", <<"lit", "printcmd">>), Msg("DEBUG", <<"lit", "stdout">>),
       Msg("DEBUG", <<"lit", "stderr">>), Msg("DEBUG", <<"lit", "retcode">>) >>

\* Popen(self.command, ..., env=self.environ, close_fds=self.cfds) can
\* start a child: the attributes exist and the command is well-formed.
CanSpawn(s) == Unset \notin {s.environ, s.cfds} /\ ValidCommand(s.command)

\* What it raises when it does.
SpawnException(s) ==
    IF Unset \in {s.environ, s.cfds} THEN "AttributeError"
    ELSE IF ValidCommand(s.command) THEN "OSError"
    ELSE "TypeError"

\* communicate(): the three assignments at its head, then the test of
\* self.command.
Communicate ==
    /\ op = "idle"
    /\ FreshCall
    /\ hist' = NewHist("communicate")
    /\ args' = NoArgs
    /\ IF Truthy(self.command)
       THEN /\ self' = [self EXCEPT !.stdout = PyStr(<<>>), !.stderr = PyStr(<<>>),
                                    !.retcode = PyInt(999)]
            /\ op' = "communicate"
            /\ pc' = 1
            /\ ret' = NoRet
            /\ log' = <<>>
       ELSE /\ self' = NoCommandFields(self)
            /\ log' = NoCommandMsgs
            /\ ret' = Return(ReturnsOf(NoCommandFields(self)))
            /\ UNCHANGED <<op, pc>>
    /\ UNCHANGED cwd

\* wait(): as communicate(), but the return code is not preset.
WaitCall ==
    /\ op = "idle"
    /\ FreshCall
    /\ hist' = NewHist("wait")
    /\ args' = NoArgs
    /\ IF Truthy(self.command)
       THEN /\ self' = [self EXCEPT !.stdout = PyStr(<<>>), !.stderr = PyStr(<<>>)]
            /\ op' = "wait"
            /\ pc' = 1
            /\ ret' = NoRet
            /\ log' = <<>>
       ELSE /\ self' = NoCommandFields(self)
            /\ log' = NoCommandMsgs
            /\ ret' = Return(ReturnsOf(NoCommandFields(self)))
            /\ UNCHANGED <<op, pc>>
    /\ UNCHANGED cwd

\* The command line liftDown builds: su, "-", the user, "-c" and, for a
\* list or a string, the command.
LiftCommand(c) ==
    PyList(<<"/usr/bin/su", "-", "user", "-c">> \o
           (IF IsList(c) \/ IsString(c) THEN <<"cmd">> ELSE <<>>))

\* The values passed as target_dir: none, a directory, a path that is no
\* directory.
TargetDirs == {"", "target", "missing"}

\* liftDown(user, target_dir): root says whether os.getuid() is 0.  The
\* logger call of the unprivileged branch passes the message alone; logged
\* says whether the logger accepts that.  With a target_dir the call keeps
\* os.getcwd() in return_dir and changes to target_dir before any test.
LiftDown(user, target_dir, root, logged) ==
    /\ op = "idle"
    /\ FreshCallWith([NoLoc EXCEPT !.return_dir = IF target_dir # "" THEN cwd ELSE "unset"])
    /\ hist' = NewHist("liftDown")
    /\ args' = [NoArgs EXCEPT !.user = user, !.target_dir = target_dir]
    /\ LET s1 == [self EXCEPT !.output = PyStr(<<>>), !.error = PyStr(<<>>),
                              !.returncode = PyInt(999)]
           cmd == LiftCommand(self.command)
       IN  IF target_dir = "missing"
           THEN /\ self' = s1
                /\ log' = <<>>
                /\ ret' = Raise("OSError")
                /\ UNCHANGED <<op, pc, cwd>>
           ELSE
           /\ cwd' = IF target_dir # "" THEN target_dir ELSE cwd
           /\ IF ~root
              THEN /\ self' = s1
                   /\ log' = IF logged THEN << Msg("NONE", <<"lit">>) >> ELSE <<>>
                   /\ ret' = IF logged THEN Return(<<PyInt(256)>>) ELSE Raise("TypeError")
                   /\ UNCHANGED <<op, pc>>
              ELSE IF MatchBlankStar(user) \/ ~Truthy(self.command)
              THEN /\ self' = s1
                   /\ log' = << Msg("WARNING", <<"lit">>), Msg("WARNING", <<"lit", "user">>),
                                Msg("WARNING", <<"lit", "command">>) >>
                   /\ ret' = Return(<<PyInt(255)>>)
                   /\ UNCHANGED <<op, pc>>
              ELSE IF BuildRaises(self.command)
              THEN /\ self' = s1
                   /\ log' = <<>>
                   /\ ret' = Raise("AttributeError")
                   /\ UNCHANGED <<op, pc>>
              ELSE /\ self' = [SetCommandTail(
                                  [s1 EXCEPT !.command = cmd,
                                             !.printcmd = PyStr(Join(cmd[2])),
                                             !.myshell = PyBool(FALSE)],
                                  PyNone, PyNone, PyBool(FALSE))
                               EXCEPT !.stdout = PyStr(<<>>), !.stderr = PyStr(<<>>),
                                      !.retcode = PyInt(999)]
                   /\ log' = << Msg("DEBUG", <<"lit", "myshell">>) >>
                   /\ ret' = NoRet
                   /\ op' = "liftDown"
                   /\ pc' = 1

PInstr == IF op \in {"communicate", "liftDown", "wait"} THEN pc ELSE 0

\* The except blocks of communicate and wait, followed by the finally block.
PipeErrorMsgs(o) ==
    (IF o = "wait"
     THEN << Msg("WARNING", <<"trace">>), Msg("WARNING", <<"lit", "err", "lit", "printcmd">>),
             Msg("WARNING", <<"trace">>), Msg("WARNING", <<"err">>) >>
     ELSE << Msg("WARNING", <<"lit", "printcmd">>), Msg("WARNING", <<"lit", "stderr">>),
             Msg("WARNING", <<"trace">>), Msg("WARNING", <<"err">>) >>)
    \o DoneMsgs

\* proc = Popen(self.command, stdout=PIPE, stderr=PIPE, shell=self.myshell,
\*              env=self.environ, close_fds=self.cfds)
PipePopen ==
    /\ PInstr = 1
    /\ \E ok \in BOOLEAN :
         IF ok /\ CanSpawn(self)
         THEN /\ proc' = [state |-> "running", code |-> 0, cpc |-> "run",
                          asked |-> 0, wrote |-> 0]
              /\ pipes' = [out |-> <<>>, err |-> <<>>, open |-> TRUE]
              /\ pc' = 2
              /\ UNCHANGED <<op, ret, log>>
         ELSE /\ log' = log \o PipeErrorMsgs(op)
              /\ EndCall(Raise(SpawnException(self)))
              /\ UNCHANGED <<proc, pipes>>
    /\ hist' = [hist EXCEPT !.spawnFailed = (op' = "idle")]
    /\ UNCHANGED <<self, args, pty, echo, toMaster, toChild, timer, loc>>
    /\ UNCHANGED cwd

\* The characters of an output chunk.
Chars(chunk) == IF chunk = "out" THEN <<"o", "u", "t">> ELSE <<"e", "r", "r">>

\* wait(): for line in proc.stdout.readline(): self.stdout += str(line) + "\n"
\* (the loop runs over the characters of the first line).
RECURSIVE EachCharLine(_)
EachCharLine(cs) == IF cs = <<>> THEN <<>> ELSE <<Head(cs), "\n">> \o EachCharLine(Tail(cs))

\* A variant of the collecting step that keeps no standard error.
CollectedNoStderr(o, s, p) == [s EXCEPT !.stdout = PyStr(p.out)]

\* What the collecting step stores in self.stdout and self.stderr:
\* communicate() all the child wrote; wait() the characters of the first
\* standard-output line, and nothing of standard error (it assigns to
\* self.stdoerr).
Collected(o, s, p) ==
    IF o = "wait"
    THEN [s EXCEPT !.stdout = PyStr(IF p.out = <<>> THEN <<>>
                                    ELSE EachCharLine(Chars(Head(p.out))))]
    ELSE [s EXCEPT !.stdout = PyStr(p.out), !.stderr = PyStr(p.err)]

\* self.stdout, self.stderr = proc.communicate()  /  proc.wait() and the two
\* read loops: the step returns when the child has ended, and reaps it.
PipeCollect ==
    /\ PInstr = 2
    /\ proc.state = "exited"
    /\ proc' = [proc EXCEPT !.state = "reaped"]
    /\ self' = Collected(op, self, pipes)
    /\ pc' = 3
    /\ UNCHANGED <<op, args, ret, pty, echo, toMaster, toChild, pipes, timer, loc, log, hist>>
    /\ UNCHANGED cwd

\* The lines liftDown logs after communicate() returned.
LiftDownMsgs ==
    << Msg("DEBUG", <<"lit", "stdout">>), Msg("DEBUG", <<"lit", "stderr">>),
       Msg("DEBUG", <<"lit", "retcode">>) >>

\* The else and finally blocks, self.command = None and the return
\* statement (in liftDown: of communicate() and then, after the change back
\* to return_dir, of liftDown itself).
PipeFinish ==
    /\ PInstr = 3
    /\ LET s == [self EXCEPT !.retcode = PyInt(proc.code), !.command = PyNone]
       IN  /\ self' = s
           /\ EndCall(Return(ReturnsOf(s)))
    /\ pipes' = [pipes EXCEPT !.open = FALSE]
    /\ log' = log \o (IF op = "wait" THEN << Msg("DEBUG", <<"printcmd", "lit", "retcode">>) >>
                      ELSE <<>>)
               \o DoneMsgs
               \o (IF op = "liftDown" THEN LiftDownMsgs ELSE <<>>)
    /\ cwd' = IF op = "liftDown" /\ args.target_dir # "" THEN loc.return_dir ELSE cwd
    /\ UNCHANGED <<args, pty, proc, echo, toMaster, toChild, timer, loc, hist>>

(***************************************************************************)
(* waitNpassThruStdout(chk_string, respawn): the call reads the child's    *)
(* standard output line by line, then its standard error, testing each     *)
(* line against chk_string.                                                *)
(***************************************************************************)
\* The lines the child writes, and the values passed as chk_string.
Lines == {"x", "y"}
ChkInputs == { PyNone, PyStr(<<>>), PyStr(<<"x">>), PyList(<<>>), PyList(<<"y", "x">>) }

\* re.search(chk_string, tmpline), for a pattern that is a literal word.
Search(pattern, line) == pattern = <<line>>

\* logger.log(lp.INFO, "chk_string found... exiting process.")
ExitingMsg == Msg("INFO", <<"lit">>)

\* A variant in which the respawn flag keeps the pump going after a match.
PumpTestRespawnGoesOn(chk, line, respawn) ==
    CASE IsString(chk) /\ chk[2] # <<>> /\ Search(chk[2], line) ->
           IF respawn THEN [verdict |-> "continue", close |-> FALSE, msgs |-> <<>>]
           ELSE [verdict |-> "stop", close |-> TRUE, msgs |-> <<ExitingMsg>>]
      [] IsList(chk) /\ chk[2] # <<>> ->
           [verdict |-> "raise", close |-> FALSE, msgs |-> <<>>]
      [] OTHER ->
           [verdict |-> "continue", close |-> FALSE, msgs |-> <<>>]

\* The pattern test applied to a line that was read: whether the loop goes
\* on, stops (break) or raises, whether both pipes are closed, and what is
\* logged.  For a non-empty list the test calls chk_string itself,
\* chk_string(mystring, tmpline), which raises TypeError.
PumpTest(chk, line, respawn) ==
    CASE IsString(chk) /\ chk[2] # <<>> /\ Search(chk[2], line) ->
           [verdict |-> "stop", close |-> TRUE,
            msgs |-> IF respawn THEN <<>> ELSE <<ExitingMsg>>]
      [] IsList(chk) /\ chk[2] # <<>> ->
           [verdict |-> "raise", close |-> FALSE, msgs |-> <<>>]
      [] OTHER ->
           [verdict |-> "continue", close |-> FALSE, msgs |-> <<>>]

WaitNpassThruStdout(chk_string, respawn) ==
    /\ op = "idle"
    /\ FreshCall
    /\ hist' = NewHist("waitNpassThruStdout")
    /\ args' = [NoArgs EXCEPT !.chk_string = chk_string, !.respawn = respawn]
    /\ IF Truthy(self.command)
       THEN /\ self' = [self EXCEPT !.stdout = PyStr(<<>>), !.stderr = PyStr(<<>>),
                                    !.retcode = PyInt(999)]
            /\ op' = "waitNpassThruStdout"
            /\ pc' = 1
            /\ ret' = NoRet
            /\ log' = <<>>
       ELSE /\ self' = NoCommandFields(self)
            /\ log' = NoCommandMsgs
            /\ ret' = Return(ReturnsOf(NoCommandFields(self)))
            /\ UNCHANGED <<op, pc>>
    /\ UNCHANGED cwd

NInstr == IF op = "waitNpassThruStdout" THEN pc ELSE 0

\* str(proc.stdout), str(proc.stderr): the text form of a file object.
FileRepr == PyStr(<<"<file>">>)

\* proc.returncode: None until poll() or wait() has seen the child's end.
ReturnCodeOf(p) == IF p.state = "reaped" THEN PyInt(p.code) ELSE PyNone

\* The except block (its second line concatenates self.printcmd) and the
\* finally block, which reads proc.
WaitNErrorMsgs(printcmd, spawned) ==
    IF printcmd = PyNone
    THEN << Msg("WARNING", <<"lit", "err">>) >>
    ELSE << Msg("WARNING", <<"lit", "err">>), Msg("WARNING", <<"lit", "printcmd">>),
            Msg("WARNING", <<"lit", "stderr">>), Msg("WARNING", <<"trace">>) >>
         \o (IF spawned THEN << Msg("DEBUG", <<"lit", "printcmd">>) >> ELSE <<>>)

\* An exception raised inside the try block with the child spawned: the
\* except block logs and re-raises, the finally block stores the text forms
\* of the two file objects and proc.returncode.  s and p are the instance
\* and the child at that point, l the log.
WaitNRaised(exc, s, p, l) ==
    /\ self' = [s EXCEPT !.stdout = FileRepr, !.stderr = FileRepr,
                         !.retcode = ReturnCodeOf(p)]
    /\ log' = l \o WaitNErrorMsgs(s.printcmd, TRUE)
    /\ EndCall(Raise(IF s.printcmd = PyNone THEN "TypeError" ELSE exc))

\* proc = Popen(...).  When it raises, the finally block's str(proc.stdout)
\* raises UnboundLocalError in its place.
WaitNPopen ==
    /\ NInstr = 1
    /\ \E ok \in BOOLEAN :
         IF ok /\ CanSpawn(self)
         THEN /\ proc' = [state |-> "running", code |-> 0, cpc |-> "run",
                          asked |-> 0, wrote |-> 0]
              /\ pipes' = [out |-> <<>>, err |-> <<>>, open |-> TRUE]
              /\ pc' = 2
              /\ UNCHANGED <<op, ret, log>>
         ELSE /\ log' = log \o WaitNErrorMsgs(self.printcmd, FALSE)
              /\ EndCall(Raise("UnboundLocalError"))
              /\ UNCHANGED <<proc, pipes>>
    /\ hist' = [hist EXCEPT !.spawnFailed = (op' = "idle")]
    /\ UNCHANGED <<self, args, pty, echo, toMaster, toChild, timer, loc>>
    /\ UNCHANGED cwd

\* One turn of a read loop on stream st ("out" or "err"), which is at
\* instruction pc = at: readline() returns the next line, or '' when the
\* child has ended and nothing is left, and raises ValueError on a closed
\* file; at the end of the stream poll() reaps the child.
WaitNRead(st, at) ==
    /\ NInstr = at
    /\ LET buf == IF st = "out" THEN pipes.out ELSE pipes.err
       IN
       IF ~pipes.open
       THEN /\ WaitNRaised("ValueError", self, proc, log)
            /\ UNCHANGED <<proc, pipes, hist>>
       ELSE IF buf # <<>>
       THEN LET line == Head(buf)
                test == PumpTest(args.chk_string, line, args.respawn)
                s == IF st = "out"
                     THEN [self EXCEPT !.stdout = PyStr(@[2] \o <<line, "\n">>)]
                     ELSE [self EXCEPT !.stderr = PyStr(@[2] \o <<line, "\n">>)]
                l == Append(log, Msg("DEBUG", <<IF st = "out" THEN "stdout" ELSE "stderr">>))
                p == [pipes EXCEPT !.out = IF st = "out" THEN Tail(@) ELSE @,
                                   !.err = IF st = "err" THEN Tail(@) ELSE @,
                                   !.open = ~test.close]
            IN  /\ pipes' = p
                /\ hist' = [hist EXCEPT !.reads = Append(@, [stream |-> st, line |-> line,
                                                             verdict |-> test.verdict])]
                /\ UNCHANGED proc
                /\ IF test.verdict = "raise"
                   THEN WaitNRaised("TypeError", s, proc, l)
                   ELSE /\ self' = s
                        /\ log' = l \o test.msgs
                        /\ pc' = IF test.verdict = "stop" THEN at + 1 ELSE at
                        /\ UNCHANGED <<op, ret>>
       ELSE /\ proc.state # "running"
            /\ proc' = [proc EXCEPT !.state = "reaped"]
            /\ pc' = at + 1
            /\ UNCHANGED <<self, op, ret, pipes, log, hist>>
    /\ UNCHANGED <<args, pty, echo, toMaster, toChild, timer, loc>>
    /\ UNCHANGED cwd

\* proc.wait(); proc.stdout.close(); proc.stderr.close(); self.libc.sync()
WaitNWaitSync ==
    /\ NInstr = 4
    /\ proc.state \in {"exited", "reaped"}
    /\ proc' = [proc EXCEPT !.state = "reaped"]
    /\ pipes' = [pipes EXCEPT !.open = FALSE]
    /\ hist' = [hist EXCEPT !.syncs = @ + 1]
    /\ pc' = 5
    /\ UNCHANGED <<self, op, args, ret, pty, echo, toMaster, toChild, timer, loc, log>>
    /\ UNCHANGED cwd

\* The else block (retcode as a string), the finally block (which replaces
\* it, and stdout and stderr by the file objects' text forms),
\* self.command = None and the return statement.
WaitNFinish ==
    /\ NInstr = 5
    /\ LET s == [self EXCEPT !.stdout = FileRepr, !.stderr = FileRepr,
                             !.retcode = ReturnCodeOf(proc), !.command = PyNone]
       IN  /\ self' = s
           /\ EndCall(Return(ReturnsOf(s)))
    /\ log' = Append(log, Msg("DEBUG", <<"lit", "printcmd">>))
    /\ UNCHANGED <<args, pty, proc, echo, toMaster, toChild, pipes, timer, loc, hist>>
    /\ UNCHANGED cwd

LineChildRuns == op = "waitNpassThruStdout" /\ proc.state = "running"

\* The child writes a line to its standard output or standard error, as
\* long as the caller has not closed the pipes.  A write to a full pipe
\* blocks: the child is then "blocked_out" or "blocked_err" until the
\* caller has read from that pipe.
LineChildWrite ==
    /\ LineChildRuns
    /\ pipes.open
    /\ proc.wrote < MaxLines
    /\ \E st \in {"out", "err"}, line \in Lines :
         LET buf == IF st = "out" THEN pipes.out ELSE pipes.err
         IN  /\ proc.cpc \in {"run", IF st = "out" THEN "blocked_out" ELSE "blocked_err"}
             /\ IF Len(buf) < PipeCapacity
                THEN /\ proc' = [proc EXCEPT !.wrote = @ + 1, !.cpc = "run"]
                     /\ pipes' = IF st = "out" THEN [pipes EXCEPT !.out = Append(@, line)]
                                  ELSE [pipes EXCEPT !.err = Append(@, line)]
                ELSE /\ proc.cpc = "run"
                     /\ proc' = [proc EXCEPT !.cpc = IF st = "out" THEN "blocked_out"
                                                     ELSE "blocked_err"]
                     /\ UNCHANGED pipes
    /\ UNCHANGED <<self, op, pc, args, ret, pty, echo, toMaster, toChild, timer, loc, log, hist>>
    /\ UNCHANGED cwd

\* The child ends: on its own when it is not in a write, or by the signal
\* of a write to a pipe the caller has closed.
LineChildExit ==
    /\ LineChildRuns
    /\ proc.cpc = "run" \/ ~pipes.open
    /\ \E c \in ExitCodes : proc' = [proc EXCEPT !.state = "exited", !.code = c]
    /\ UNCHANGED <<self, op, pc, args, ret, pty, echo, toMaster, toChild, pipes, timer, loc, log, hist>>
    /\ UNCHANGED cwd

(***************************************************************************)
(* RunThread and runMyThreadCommand(cmd, logger, myshell): the caller       *)
(* builds a RunThread, starts it, joins it and reads its two accessors;    *)
(* the thread's run() spawns the child and collects what it wrote.         *)
(***************************************************************************)
\* runMyThreadCommand, lines 1051-1058 and 1065-1068: cylogger says whether
\* the logger argument is a CyLogger.
RunMyThreadCommand(cmd, cylogger, myshell) ==
    /\ op = "idle"
    /\ FreshCall
    /\ hist' = NewHist("runMyThreadCommand")
    /\ args' = [NoArgs EXCEPT !.cmd = cmd, !.myshell = myshell]
    /\ UNCHANGED self
    /\ IF ~cylogger
       THEN /\ log' = <<>>
            /\ ret' = Raise("NotACyLoggerError")
            /\ UNCHANGED <<op, pc>>
       ELSE IF Truthy(cmd)
       THEN /\ log' = <<>>
            /\ ret' = NoRet
            /\ op' = "runMyThreadCommand"
            /\ pc' = 1
       ELSE /\ log' = << Msg("INFO", <<"lit">>) >>
            /\ ret' = Return(<<PyNone, PyNone>>)
            /\ UNCHANGED <<op, pc>>
    /\ UNCHANGED cwd

MInstr == IF op = "runMyThreadCommand" THEN pc ELSE 0

\* RunThread.__init__: a list sets shell to True and printcmd to its joined
\* elements (the join raises TypeError on a non-string element), a string
\* sets shell to False; any other command keeps myshell and has no printcmd.
RunThreadInit ==
    /\ MInstr = 1
    /\ IF BuildRaises(args.cmd)
       THEN /\ EndCall(Raise("TypeError"))
            /\ UNCHANGED <<loc, log>>
       ELSE /\ loc' = [loc EXCEPT !.run_thread =
                         [NoThread EXCEPT
                            !.state = "initial",
                            !.command = args.cmd,
                            !.shell = IF IsList(args.cmd) THEN PyBool(TRUE)
                                      ELSE IF IsString(args.cmd) THEN PyBool(FALSE)
                                      ELSE args.myshell,
                            !.printcmd = IF IsList(args.cmd) THEN PyStr(Join(args.cmd[2]))
                                         ELSE IF IsString(args.cmd) THEN args.cmd
                                         ELSE Unset]]
            /\ log' = Append(log, Msg("INFO", <<"lit">>))
            /\ pc' = 2
            /\ UNCHANGED <<op, ret>>
    /\ UNCHANGED <<self, args, pty, proc, echo, toMaster, toChild, pipes, timer, hist>>
    /\ UNCHANGED cwd

\* run_thread.start()
RunThreadStart ==
    /\ MInstr = 2
    /\ loc' = [loc EXCEPT !.run_thread.state = "started"]
    /\ pc' = 3
    /\ UNCHANGED <<self, op, args, ret, pty, proc, echo, toMaster, toChild, pipes, timer, log, hist>>
    /\ UNCHANGED cwd

\* The three warnings of run()'s outer except block.
RunThreadSpawnErrorMsgs ==
    << Msg("WARNING", <<"lit", "command">>), Msg("WARNING", <<"trace">>),
       Msg("WARNING", <<"err">>) >>

\* run(), in the thread: p = Popen(self.command, stdout=PIPE, stderr=PIPE,
\* shell=self.shell); when it raises, the except block logs and re-raises.
RunThreadPopen ==
    /\ MInstr = 3
    /\ loc.run_thread.state = "started"
    /\ \E ok \in BOOLEAN :
         IF ok /\ ValidCommand(loc.run_thread.command)
         THEN /\ proc' = [state |-> "running", code |-> 0, cpc |-> "run",
                          asked |-> 0, wrote |-> 0]
              /\ pipes' = [out |-> <<>>, err |-> <<>>, open |-> TRUE]
              /\ loc' = [loc EXCEPT !.run_thread.state = "spawned"]
              /\ UNCHANGED log
         ELSE /\ loc' = [loc EXCEPT !.run_thread.state = "finished",
                                    !.run_thread.raised = TRUE]
              /\ log' = log \o RunThreadSpawnErrorMsgs
              /\ UNCHANGED <<proc, pipes>>
    /\ UNCHANGED <<self, op, pc, args, ret, pty, echo, toMaster, toChild, timer, hist>>
    /\ UNCHANGED cwd

\* run(): self.retout, self.reterr = p.communicate() inside the try block,
\* and the warning after it: the step returns when the child has ended, with
\* all it wrote, reaps it and closes both pipes.
RunThreadCommunicate ==
    /\ MInstr = 3
    /\ loc.run_thread.state = "spawned"
    /\ proc.state = "exited"
    /\ proc' = [proc EXCEPT !.state = "reaped"]
    /\ pipes' = [pipes EXCEPT !.open = FALSE]
    /\ loc' = [loc EXCEPT !.run_thread.state = "collected",
                          !.run_thread.retout = PyStr(pipes.out),
                          !.run_thread.reterr = PyStr(pipes.err)]
    /\ log' = Append(log, Msg("WARNING", <<"lit", "command">>))
    /\ UNCHANGED <<self, op, pc, args, ret, pty, echo, toMaster, toChild, timer, hist>>
    /\ UNCHANGED cwd

\* run()'s else block: p.communicate() a second time.  Both pipes were
\* closed by the first, and fileno() of a closed file raises ValueError
\* before anything is assigned; the inner except block logs two warnings
\* and re-raises, which ends the thread.
RunThreadCommunicateAgain ==
    /\ MInstr = 3
    /\ loc.run_thread.state = "collected"
    /\ loc' = [loc EXCEPT !.run_thread.state = "finished", !.run_thread.raised = TRUE]
    /\ log' = log \o << Msg("WARNING", <<"lit", "printcmd">>),
                         Msg("WARNING", <<"lit", "err">>) >>
    /\ UNCHANGED <<self, op, pc, args, ret, pty, proc, echo, toMaster, toChild, pipes, timer, hist>>
    /\ UNCHANGED cwd

\* run_thread.join(): returns when run() has ended, by return or by raising.
RunThreadJoin ==
    /\ MInstr = 3
    /\ loc.run_thread.state = "finished"
    /\ pc' = 4
    /\ UNCHANGED <<self, op, args, ret, pty, proc, echo, toMaster, toChild, pipes, timer, loc, log, hist>>
    /\ UNCHANGED cwd

\* retval = run_thread.getStdout(); reterr = run_thread.getStderr();
\* return retval, reterr
RunMyThreadFinish ==
    /\ MInstr = 4
    /\ log' = log \o << Msg("INFO", <<"lit">>), Msg("DEBUG", <<"lit">>) >>
    /\ EndCall(Return(<<loc.run_thread.retout, loc.run_thread.reterr>>))
    /\ UNCHANGED <<self, args, pty, proc, echo, toMaster, toChild, pipes, timer, loc, hist>>
    /\ UNCHANGED cwd

(***************************************************************************)
(* waitnoecho(fileDescriptor, timeout) called on its own, on a terminal    *)
(* whose ECHO attribute another process sets and clears.                   *)
(***************************************************************************)
\* The values passed as timeout: None, a negative number, zero and positive
\* numbers of ticks.
TimeoutInputs == {PyNone} \cup {PyInt(t) : t \in -1..(EchoTimeoutTicks + 1)}

WaitNoEchoCall(timeout) ==
    /\ op = "idle"
    /\ FreshCall
    /\ hist' = NewHist("waitnoecho")
    /\ args' = [NoArgs EXCEPT !.timeout = timeout]
    /\ op' = "waitnoecho"
    /\ pc' = 1
    /\ ret' = NoRet
    /\ log' = <<>>
    /\ UNCHANGED <<self, cwd>>

\* The first statement of the call.
WaitNoEchoStart == op = "waitnoecho" /\ WaitNoEchoEnter(args.timeout)

\* return True / return False
WaitNoEchoReturn ==
    /\ op = "waitnoecho"
    /\ pc = 2
    /\ EndCall(Return(<<PyBool(loc.noecho)>>))
    /\ UNCHANGED <<self, args, pty, proc, echo, toMaster, toChild, pipes, timer, loc, log,
                   hist, cwd>>

\* The process on the terminal turns ECHO off or on.
TerminalSetsEcho ==
    /\ op = "waitnoecho"
    /\ echo' = ~echo
    /\ UNCHANGED <<self, op, pc, args, ret, pty, proc, toMaster, toChild, pipes, timer, loc,
                   log, hist, cwd>>

(***************************************************************************)
(* The specifications: one per group of operations the caller uses (the    *)
(* elevation calls, timeout, the pipe calls, setCommand alone, waitnoecho  *)
(* alone, runMyThreadCommand), and all of them together.                   *)
(***************************************************************************)
SetCommandCall ==
    \E c \in CommandInputs, e \in EnvInputs, m \in MyshellInputs, f \in CloseFdsInputs :
        SetCommand(c, e, m, f)

NextElevation ==
    \/ SetCommandCall
    \/ \E u \in Strings, p \in Strings : RunAs(u, p)
    \/ \E u \in Strings, p \in Strings : RunAsWithSudo(u, p)
    \/ \E p \in Strings : RunWithSudo(p)
    \/ Openpty
    \/ Popen
    \/ ReadPrompt
    \/ Read
    \/ ReadAcc
    \/ WaitNoEchoEnter(PyInt(EchoTimeoutTicks))
    \/ WaitNoEchoPoll
    \/ Write
    \/ Select
    \/ Drain
    \/ Close
    \/ Wait
    \/ Finish
    \/ ChildPrompt
    \/ ChildReadSecret
    \/ ChildWrite
    \/ ChildExit

NextTimeout ==
    \/ SetCommandCall
    \/ Timeout
    \/ TimeoutPopen
    \/ TimerStart
    \/ TimeoutCommunicate
    \/ TimerCancel
    \/ TimeoutFinish
    \/ TimerExpire
    \/ KillProcSetFlag
    \/ KillProcKill
    \/ PipeChildWrite
    \/ PipeChildExit

NextPipe ==
    \/ SetCommandCall
    \/ Communicate
    \/ WaitCall
    \/ \E u \in Strings, d \in TargetDirs, root \in BOOLEAN, logged \in BOOLEAN :
          LiftDown(u, d, root, logged)
    \/ PipePopen
    \/ PipeCollect
    \/ PipeFinish
    \/ PipeChildWrite
    \/ PipeChildExit
    \/ \E c \in ChkInputs, r \in BOOLEAN : WaitNpassThruStdout(c, r)
    \/ WaitNPopen
    \/ WaitNRead("out", 2)
    \/ WaitNRead("err", 3)
    \/ WaitNWaitSync
    \/ WaitNFinish
    \/ LineChildWrite
    \/ LineChildExit

\* The caller that only calls setCommand, with every shape of argument.
NextSetCommand ==
    \E c \in CommandInputs, e \in AllEnvInputs, m \in AllMyshellInputs,
       f \in AllCloseFdsInputs : SetCommand(c, e, m, f)

NextWaitNoEcho ==
    \/ \E t \in TimeoutInputs : WaitNoEchoCall(t)
    \/ WaitNoEchoStart
    \/ WaitNoEchoPoll
    \/ WaitNoEchoReturn
    \/ TerminalSetsEcho

NextThread ==
    \/ \E c \in CommandInputs, l \in BOOLEAN, m \in {PyBool(FALSE), PyBool(TRUE)} :
          RunMyThreadCommand(c, l, m)
    \/ RunThreadInit
    \/ RunThreadStart
    \/ RunThreadPopen
    \/ RunThreadCommunicate
    \/ RunThreadCommunicateAgain
    \/ RunThreadJoin
    \/ RunMyThreadFinish
    \/ PipeChildWrite
    \/ PipeChildExit

Next == NextElevation \/ NextTimeout \/ NextPipe \/ NextThread \/ NextWaitNoEcho

SpecElevation == Init /\ [][NextElevation]_vars

SpecTimeout == Init /\ [][NextTimeout]_vars

SpecPipe == Init /\ [][NextPipe]_vars

SpecSetCommand == Init /\ [][NextSetCommand]_vars

SpecWaitNoEcho == Init /\ [][NextWaitNoEcho]_vars

\* waitnoecho on its own, where the calling thread is scheduled: it takes
\* its next step if it stays able to.  Nothing is assumed of the terminal.
WaitNoEchoThreadFair ==
    /\ WF_vars(WaitNoEchoStart)
    /\ WF_vars(WaitNoEchoPoll)
    /\ WF_vars(WaitNoEchoReturn)

SpecWaitNoEchoFair == Init /\ [][NextWaitNoEcho]_vars /\ WaitNoEchoThreadFair

SpecThread == Init /\ [][NextThread]_vars

Spec == Init /\ [][Next]_vars

\* The caller with timeout, where the main thread and the timer thread are
\* scheduled (each takes its next step if it stays able to) and the timer's
\* interval passes; nothing is assumed of the child or of the caller's next
\* call.
TimeoutThreadsFair ==
    /\ WF_vars(TimeoutPopen) /\ WF_vars(TimerStart) /\ WF_vars(TimeoutCommunicate)
    /\ WF_vars(TimerCancel) /\ WF_vars(TimeoutFinish)
    /\ WF_vars(TimerExpire) /\ WF_vars(KillProcSetFlag) /\ WF_vars(KillProcKill)

SpecTimeoutFair == Init /\ [][NextTimeout]_vars /\ TimeoutThreadsFair


(***************************************************************************)
(* Properties.                                                             *)
(***************************************************************************)
\* An elevation call has ended (returned or raised).
ElevationEnded == op = "idle" /\ hist.call \in ElevationOps

\* C1: every elevation call that allocated a pseudo-terminal pair has
\* closed both descriptors and reaped its child when it returns or raises.
C1_PtyReleasedOnEveryExit ==
    (ElevationEnded /\ pty.master # "none") =>
        /\ pty.master = "closed"
        /\ pty.slave = "closed"
        /\ proc.state \in {"none", "reaped"}

\* C2: no call to the logger, in any state of any elevation call, has the
\* password among the values its message is built from.
C2_NoPasswordInLog ==
    \A i \in 1..Len(log) : \A j \in 1..Len(log[i].parts) : log[i].parts[j] # "password"

\* C2's case: a call given a real password failed its argument check and
\* logged the four warnings of that path.
C2_Witness ==
    /\ ElevationEnded
    /\ args.password = <<"a">>
    /\ ret = Return(<<PyInt(255)>>)
    /\ \E i \in 1..Len(log) : log[i] = CheckPasswordMsg /\ Len(log) > i

\* C3: in runWithSudo and runAsWithSudo every write of the secret follows an
\* echo poll that saw ECHO off; after a poll that ran out, none is written.
C3_WriteOnlyAfterNoEcho ==
    hist.call \in {"runWithSudo", "runAsWithSudo"} =>
        \A i \in 1..Len(hist.writes) : hist.writes[i].noecho

\* C4: an elevation call in which an echo poll ran out ends in a failure
\* (an exception or the sentinel), which a call whose prompts were all
\* detected never ends in.
C4_EchoTimeoutIsFailure ==
    (ElevationEnded /\ hist.timedOut) =>
        (ret.kind = "raise" \/ ret = Return(<<PyInt(255)>>))


\* The phases of a flow; in the two-step flow the first AWAIT_PROMPT and
\* PASSWORD_SENT are the spec's AWAIT_PROMPT_1 and PASSWORD_SENT_1, the
\* second ones its AWAIT_PROMPT_2 and PASSWORD_SENT_2.
Flow(o) ==
    IF o = "runAsWithSudo"
    THEN << "SPAWNED", "AWAIT_PROMPT", "PASSWORD_SENT", "AWAIT_PROMPT",
            "PASSWORD_SENT", "DRAINING", "EXITED" >>
    ELSE << "SPAWNED", "AWAIT_PROMPT", "PASSWORD_SENT", "DRAINING", "EXITED" >>

\* The prompts of a flow.
NPrompts(o) == IF o = "runAsWithSudo" THEN 2 ELSE 1

IsPrefix(s, q) == Len(s) <= Len(q) /\ \A i \in 1..Len(s) : s[i] = q[i]
Has(s, x) == \E i \in 1..Len(s) : s[i] = x

\* C5, as stated: every elevation run that passed its argument check has
\* gone through all phases of its flow, in order, when it ends.
C5_EveryRunAllPhases ==
    (ElevationEnded /\ hist.valid) => hist.phases = Flow(hist.call)

\* C5, amended: the phases a run has entered are always an initial part of
\* its flow's sequence (in order, none skipped, none repeated); a run that
\* spawned its child and, in runAs, read the prompt has gone through all of
\* them when it ends; draining starts only after the flow's last secret
\* write, and a descriptor is closed only after the drain loop was left
\* (its poll found the child ended and reaped it).
C5_PhasesInOrder ==
    hist.call \in ElevationOps =>
        /\ IsPrefix(hist.phases, Flow(hist.call))
        /\ (op = "idle" /\ hist.valid /\ proc.state # "none" /\ ~hist.mismatch)
              => hist.phases = Flow(hist.call)
        /\ Has(hist.phases, "DRAINING") => Len(hist.writes) = NPrompts(hist.call)
        /\ (pty.master = "closed" \/ pty.slave = "closed")
              => /\ Has(hist.phases, "DRAINING")
                 /\ Instr \notin {"select", "drain"}
                 /\ proc.state = "reaped"

\* C5's case: a two-step run has ended after all seven phases.
C5_Witness ==
    /\ ElevationEnded
    /\ hist.call = "runAsWithSudo"
    /\ hist.phases = Flow("runAsWithSudo")

\* C6, as stated: every elevation run that passed its argument check has
\* written the secret once (single-step) or twice (two-step) when it ends.
C6_ExactWrites ==
    (ElevationEnded /\ hist.valid) => Len(hist.writes) = NPrompts(hist.call)

\* C6, amended: a run that spawned its child and, in runAs, read the prompt
\* has written the secret exactly once (single-step) or twice (two-step)
\* when it ends, the i-th write after the i-th prompt wait began and before
\* the next; a run that ended before has written none; no run writes more
\* often than its flow has prompts.
C6_WritesPerFlow ==
    hist.call \in ElevationOps =>
        /\ Len(hist.writes) <= NPrompts(hist.call)
        /\ \A i \in 1..Len(hist.writes) : hist.writes[i].waits = i
        /\ (op = "idle" /\ hist.valid /\ proc.state # "none" /\ ~hist.mismatch)
              => Len(hist.writes) = NPrompts(hist.call)
        /\ (op = "idle" /\ (~hist.valid \/ proc.state = "none" \/ hist.mismatch))
              => hist.writes = <<>>

\* C6's case: a two-step run has ended with two secret writes.
C6_Witness ==
    /\ ElevationEnded
    /\ hist.call = "runAsWithSudo"
    /\ Len(hist.writes) = 2

Count(s, x) == Cardinality({i \in 1..Len(s) : s[i] = x})

\* C7: when the drain loop is left, the child has ended, nothing is pending
\* on the controller descriptor, and every chunk the child wrote after it
\* read a secret is in the accumulated output.
C7_DrainComplete ==
    Instr = "close" =>
        /\ proc.state # "running"
        /\ toMaster = <<>>
        /\ Count(loc.output, "out") = hist.cmdOut

\* C8: after an elevation run that went through its whole flow, the call
\* returns, its result holds the accumulated output, and the stdout and
\* return-code attributes hold that output and the child's exit status.
C8_ResultCarriesOutput ==
    (ElevationEnded /\ hist.phases = Flow(hist.call)) =>
        /\ ret.kind = "return"
        /\ Has(ret.val, PyStr(loc.output))
        /\ self.stdout = PyStr(loc.output)
        /\ self.retcode = PyInt(proc.code)

\* Empty or whitespace only.
IsBlank(s) == \A i \in 1..Len(s) : s[i] = " "

\* C9: an elevation call with a blank user (where one is required), a blank
\* password or no command stored returns 255, raises nothing, allocates no
\* pseudo-terminal and spawns no child.
C9_InvalidArgsReturn255 ==
    (/\ ElevationEnded
     /\ \/ hist.call # "runWithSudo" /\ IsBlank(args.user)
        \/ IsBlank(args.password)
        \/ ~hist.cmdSet)
    => /\ ret = Return(<<PyInt(255)>>)
       /\ pty = NoPty
       /\ proc.state = "none"

\* C9's case: runAsWithSudo was called with a command stored, a user and
\* an empty password, and has returned.
C9_Witness ==
    /\ ElevationEnded
    /\ hist.call = "runAsWithSudo"
    /\ hist.cmdSet
    /\ args.user = <<"a">>
    /\ args.password = <<>>
    /\ ret.kind = "return"

\* C10: when timeout() returns after the child ended on its own, it returns
\* False and the return code is the child's exit status; it returns True
\* only if the watchdog's kill ended the child.
C10_FlagIffKilled ==
    (op = "idle" /\ hist.call = "timeout" /\ ret.kind = "return") =>
        /\ hist.ownExit => (ret = Return(<<PyBool(FALSE)>>) /\ self.retcode = PyInt(proc.code))
        /\ ret = Return(<<PyBool(TRUE)>>) => hist.killed


\* timeout() has returned.
TimeoutReturned == op = "idle" /\ hist.call = "timeout" /\ ret.kind = "return"

\* C11, as stated: when timeout() returns after the watchdog's interval
\* passed with the child running, the watchdog's kill ended the child,
\* the call returns True and the child is reaped.
C11_ExpiryKillsAndReportsTrue ==
    (TimeoutReturned /\ hist.expiredLive) =>
        /\ hist.killed
        /\ ret = Return(<<PyBool(TRUE)>>)
        /\ proc.state = "reaped"

\* When timeout() returns the child is reaped; a child that did not end on
\* its own was ended by the watchdog's kill; after that kill the call
\* returns True.
C11_KilledReturnsTrue ==
    TimeoutReturned =>
        /\ proc.state = "reaped"
        /\ ~hist.ownExit => hist.killed
        /\ hist.killed => ret = Return(<<PyBool(TRUE)>>)

\* C11, amended: a timeout() call that spawned its child returns, even if
\* the child never ends on its own; when it returns the child is reaped; if
\* the watchdog's interval passed with the child running and the child did
\* not end on its own before the kill, the kill ended it and the call
\* returns True.
C11_WatchdogEndsTheCall ==
    /\ []C11_KilledReturnsTrue
    /\ (op = "timeout" /\ proc.state = "running") ~> TimeoutReturned

\* C11's case: the watchdog killed the child, and timeout() has returned
\* True with the child reaped.
C11_Witness ==
    /\ TimeoutReturned
    /\ hist.expiredLive
    /\ hist.killed
    /\ ~hist.ownExit
    /\ ret = Return(<<PyBool(TRUE)>>)
    /\ proc.state = "reaped"

\* C12: the watchdog's kill raises no error in the timer thread, whatever
\* the state of the child it is applied to.
C12_KillNeverRaises == ~timer.error


\* A run operation has ended (returned or raised).
RunEnded == op = "idle" /\ hist.call \in RunOps

\* C13: after a run operation has ended the stored command is cleared, and
\* a run operation that follows another without a setCommand in between
\* spawns no child.
C13_CommandClearedAfterRun ==
    /\ RunEnded => self.command = PyNone
    /\ (hist.call \in RunOps /\ hist.stale) => proc.state = "none"

\* 1 for TRUE, 0 for FALSE.
One(b) == IF b THEN 1 ELSE 0

\* C14: the instance never has more than one child that is running or
\* unreaped, nor more than one open pseudo-terminal pair, counting those
\* that earlier calls left behind.
C14_OneChildOnePty ==
    /\ One(hist.leakedProc) + One(proc.state \in {"running", "exited"}) <= 1
    /\ One(hist.leakedPty) + One(pty.master = "open") <= 1

WaitNCall == hist.call = "waitNpassThruStdout"

\* C15: with a non-empty string pattern, the read of a matching line of
\* standard output stops the pump, no later line of standard output is
\* read, and the call returns without raising.
C15_StopsAtFirstMatch ==
    (WaitNCall /\ IsString(args.chk_string) /\ args.chk_string[2] # <<>>) =>
        \A i \in 1..Len(hist.reads) :
            (hist.reads[i].stream = "out" /\ Search(args.chk_string[2], hist.reads[i].line))
            => /\ hist.reads[i].verdict = "stop"
               /\ \A j \in (i+1)..Len(hist.reads) : hist.reads[j].stream # "out"
               /\ op = "idle" => ret.kind = "return"

\* A line matches some pattern of the list.
ListMatch(l, line) == \E k \in 1..Len(l) : l[k] = line

\* C16: with a non-empty list of patterns, every line read is tested
\* against the list: the pump stops at a line that matches a pattern of the
\* list and goes on after one that matches none.
C16_ListFirstMatchStops ==
    (WaitNCall /\ IsList(args.chk_string) /\ args.chk_string[2] # <<>>) =>
        \A i \in 1..Len(hist.reads) :
            hist.reads[i].verdict =
                IF ListMatch(args.chk_string[2], hist.reads[i].line) THEN "stop" ELSE "continue"

\* C17: a waitNpassThruStdout call that spawned a child has called the
\* filesystem sync exactly once when it ends, with the child reaped.
C17_SyncOncePerRun ==
    (op = "idle" /\ WaitNCall /\ proc.state # "none") =>
        /\ hist.syncs = 1
        /\ proc.state = "reaped"

InLog(m) == \E i \in 1..Len(log) : log[i] = m

\* C18: the respawn flag changes nothing but the log: for every line, the
\* pattern test gives the same outcome (go on, stop, raise) and closes the
\* same pipes with the flag set and unset, and logs the same but for the
\* 'exiting' line; the outcomes on record are those the other value of the
\* flag gives; the 'exiting' line is logged only with the flag unset.
C18_RespawnOnlyChangesLog ==
    WaitNCall =>
        /\ \A line \in Lines :
              LET a == PumpTest(args.chk_string, line, TRUE)
                  b == PumpTest(args.chk_string, line, FALSE)
              IN  /\ a.verdict = b.verdict
                  /\ a.close = b.close
                  /\ b.msgs \in {a.msgs, a.msgs \o <<ExitingMsg>>}
        /\ \A i \in 1..Len(hist.reads) :
              hist.reads[i].verdict =
                  PumpTest(args.chk_string, hist.reads[i].line, ~args.respawn).verdict
        /\ InLog(ExitingMsg) => ~args.respawn

\* C18's case: a run with the respawn flag set was stopped by a match and
\* has returned, with no 'exiting' line in its log.
C18_Witness ==
    /\ op = "idle"
    /\ WaitNCall
    /\ args.respawn
    /\ ret.kind = "return"
    /\ \E i \in 1..Len(hist.reads) : hist.reads[i].verdict = "stop"
    /\ ~InLog(ExitingMsg)

\* C19: communicate() with a child spawned returns all the child wrote to
\* standard output and to standard error and its exit status, with the
\* pipes closed.
C19_CommunicateReturnsAll ==
    (op = "idle" /\ hist.call = "communicate" /\ proc.state # "none") =>
        /\ ret = Return(<<PyStr(pipes.out), PyStr(pipes.err), PyInt(proc.code)>>)
        /\ ~pipes.open
        /\ proc.state = "reaped"

\* C19's case: the child wrote to standard error and exited with status 1,
\* and communicate() has returned.
C19_Witness ==
    /\ op = "idle"
    /\ hist.call = "communicate"
    /\ pipes.err = <<"err">>
    /\ proc.code = 1
    /\ ret.kind = "return"

\* C20: when communicate() has ended, the return code is 999 exactly if it
\* was called with no command stored.
C20_SentinelIffNoCommand ==
    (op = "idle" /\ hist.call = "communicate") =>
        (self.retcode = PyInt(999) <=> ~hist.cmdSet)

\* C21: when run_thread.join() has returned for a RunThread whose command
\* spawned, the two accessors return all the child wrote to standard
\* output and to standard error and run() has ended without raising;
\* runMyThreadCommand reads the accessors only after the thread has ended.
C21_JoinedThreadHasOutput ==
    /\ (MInstr = 4 /\ proc.state # "none") =>
          /\ loc.run_thread.retout = PyStr(pipes.out)
          /\ loc.run_thread.reterr = PyStr(pipes.err)
          /\ ~loc.run_thread.raised
    /\ MInstr = 4 => loc.run_thread.state = "finished"

\* The runners C22 names.
Runners == ElevationOps \cup PipeOps

\* Some call to the logger was made at warning level.
WarningLogged == \E i \in 1..Len(log) : log[i].level = "WARNING"

\* C22: a runner call in which the spawn failed (pty.openpty() or Popen()
\* raised) or the handshake failed (an echo poll ran out, runAs did not read
\* the prompt) has logged at least one warning and ends by raising.
C22_SpawnFailureLoggedAndRaised ==
    (op = "idle" /\ hist.call \in Runners
       /\ (hist.spawnFailed \/ hist.timedOut \/ hist.mismatch))
    => /\ ret.kind = "raise"
       /\ WarningLogged

\* A non-empty list of strings or a non-empty string.
Acceptable(c) ==
    \/ IsList(c) /\ Len(c[2]) > 0 /\ \A i \in 1..Len(c[2]) : c[2][i] # NonString
    \/ IsString(c) /\ Len(c[2]) > 0

\* C23: setCommand returns for a non-empty list of strings and for a
\* non-empty string and raises for every other command; after a call that
\* returned, the stored command is the one given, shell mode is the boolean
\* passed as myshell or else False for a list and True for a string, env is
\* a dict or None and the descriptor flag is a boolean.
C23_SetCommandAccepts ==
    hist.call = "setCommand" =>
        /\ Acceptable(args.cmd) => ret.kind = "return"
        /\ ~Acceptable(args.cmd) => ret.kind = "raise"
        /\ ret.kind = "return" =>
              /\ self.command = args.cmd
              /\ self.myshell = IF args.myshell[1] = "bool" THEN args.myshell
                                ELSE PyBool(IsString(args.cmd))
              /\ self.environ = PyNone \/ self.environ[1] = "dict"
              /\ self.cfds \in {PyBool(FALSE), PyBool(TRUE)}

\* C23's case: a list of strings was stored with shell mode overridden to
\* True, a dict as env and the descriptor flag set.
C23_Witness ==
    /\ hist.call = "setCommand"
    /\ args.cmd = PyList(<<"a">>)
    /\ args.myshell = PyBool(TRUE)
    /\ ret.kind = "return"
    /\ self.myshell = PyBool(TRUE)
    /\ self.environ = PyDict(<<"k">>)
    /\ self.cfds = PyBool(TRUE)

\* C24: a liftDown call that returned 256 or 255 has spawned no child and
\* has left the current working directory as it was when the call began.
C24_FailedLiftDownChangesNothing ==
    (op = "idle" /\ hist.call = "liftDown"
       /\ ret \in {Return(<<PyInt(255)>>), Return(<<PyInt(256)>>)})
    => /\ proc.state = "none"
       /\ cwd = hist.cwd0

\* waitnoecho, called on its own, has ended.
WaitNoEchoEnded == op = "idle" /\ hist.call = "waitnoecho"

\* The call was given a positive timeout.
PositiveTimeout == args.timeout # PyNone /\ args.timeout[2] > 0

C25_PollsWithinTwoSleeps ==
    (hist.call = "waitnoecho" /\ PositiveTimeout) =>
        /\ op = "waitnoecho" /\ loc.inwait => loc.now <= loc.end_time[2] + 2
        /\ op = "idle" =>
              /\ ret \in {Return(<<PyBool(TRUE)>>), Return(<<PyBool(FALSE)>>)}
              /\ ret = Return(<<PyBool(loc.noecho)>>)
              /\ ret = Return(<<PyBool(FALSE)>>) => hist.lastPoll = "over2"

C26_UnboundedWaitNeverFalse ==
    (WaitNoEchoEnded /\ (args.timeout = PyNone \/ args.timeout[2] < 0)) =>
        /\ ret = Return(<<PyBool(TRUE)>>)
        /\ loc.noecho
        /\ hist.lastPoll = "unbounded"

\* C27: waitNpassThruStdout is never waiting for the end of standard
\* output (nothing left to read there, the child alive) while the child is
\* blocked in a write to a full standard-error pipe.
C27_PumpNeverStuckOnStdout ==
    ~(/\ NInstr = 2
      /\ pipes.open
      /\ pipes.out = <<>>
      /\ proc.state = "running"
      /\ proc.cpc = "blocked_err")

\* C28: no elevation call is at a blocking read of the controller
\* descriptor with nothing pending there after its child has exited (the
\* caller holds the other descriptor open, so such a read never returns).
C28_NoReadAfterChildExit ==
    ~(/\ Instr \in {"read_prompt", "read", "read_acc"}
      /\ toMaster = <<>>
      /\ proc.state = "exited"
      /\ pty.slave = "open")

\* The lines read from stream st, each followed by a newline.
RECURSIVE LinesRead(_, _)
LinesRead(reads, st) ==
    IF reads = <<>> THEN <<>>
    ELSE (IF Head(reads).stream = st THEN <<Head(reads).line, "\n">> ELSE <<>>)
         \o LinesRead(Tail(reads), st)

\* C29: a waitNpassThruStdout call with no pattern that spawned its child
\* and returned has read both streams to their end, and returns the lines
\* of standard output, the lines of standard error (each followed by a
\* newline, in order) and the child's exit status.
C29_PlainRunReturnsLines ==
    (op = "idle" /\ WaitNCall /\ args.chk_string = PyNone
       /\ proc.state # "none" /\ ret.kind = "return")
    => /\ pipes.out = <<>> /\ pipes.err = <<>>
       /\ ret = Return(<< PyStr(LinesRead(hist.reads, "out")),
                          PyStr(LinesRead(hist.reads, "err")),
                          PyInt(proc.code) >>)

\* C30: a timeout() call that spawned its child ends by returning True or
\* False, killed or not; a call with no command stored spawns nothing,
\* sets stdout, stderr and the return code to None and returns False.
C30_TimeoutReturnsBoolean ==
    (op = "idle" /\ hist.call = "timeout") =>
        /\ proc.state # "none" =>
              ret \in {Return(<<PyBool(TRUE)>>), Return(<<PyBool(FALSE)>>)}
        /\ ~hist.cmdSet =>
              /\ proc.state = "none"
              /\ self.stdout = PyNone /\ self.stderr = PyNone /\ self.retcode = PyNone
              /\ ret = Return(<<PyBool(FALSE)>>)

\* C31: after a setCommand call that raised, the stored command, its
\* printable form and the shell mode are what they were before the call.
C31_RejectedCommandNotStored ==
    (hist.call = "setCommand" /\ ret.kind = "raise") =>
        <<self.command, self.printcmd, self.myshell>> = hist.before

====
